---- MODULE Spec2Model ----
(***************************************************************************)
(* Model of core/pdbCorrection.py of FitViewer: the hybrid36 codec, the    *)
(* per-record field transformers, the chain/residue renumbering state      *)
(* machine and the correct_pdb pass of class PDB_Corr.                     *)
(*                                                                         *)
(* A Python str is modelled as a sequence of one-character strings, so     *)
(* that slicing, joining, padding and parsing are modelled by what they do.*)
(* A raised exception is modelled by the value of the exception's name.    *)
(***************************************************************************)
EXTENDS Integers, Sequences, FiniteSets, TLC

(***************************************************************************)
(* Bounds of the model.                                                    *)
(***************************************************************************)
\* longest record sequence handed to correct_pdb in Spec
MaxLen == 2
\* number of correct_pdb calls made on one PDB_Corr instance
MaxCalls == 2
\* largest number of input segments of a record sequence in SpecWrap
MaxSegs == 52
\* largest field width handed to number_to_hybrid36_number in SpecCodec
MaxWidth == 2
\* largest and (negated) smallest number handed to number_to_hybrid36_number
\* in SpecCodec
MaxNumber == 1975
MaxNeg == 10
\* longest record sequence handed to reshuffle_pdb in SpecShuffle
MaxShuffle == 4

(***************************************************************************)
(* Python str / list primitives.                                           *)
(***************************************************************************)
Min(a, b) == IF a < b THEN a ELSE b

Max(a, b) == IF a > b THEN a ELSE b

\* s[a:b] with Python's clamping of the bounds (0 <= a, 0 <= b)
Slice(s, a, b) == SubSeq(s, a + 1, Min(b, Len(s)))

\* s[a:]
SliceFrom(s, a) == SubSeq(s, a + 1, Len(s))

\* c * n for a one-character string c
Rep(c, n) == [i \in 1..n |-> c]

\* s.rjust(width, fill)
RJust(s, width, fill) == Rep(fill, Max(width - Len(s), 0)) \o s

\* s.replace(" ", "")
RECURSIVE RemoveSpaces(_)
RemoveSpaces(s) ==
    IF s = <<>> THEN <<>>
    ELSE IF Head(s) = " " THEN RemoveSpaces(Tail(s))
    ELSE <<Head(s)>> \o RemoveSpaces(Tail(s))

\* s.strip() (blanks are the only whitespace of the records modelled)
RECURSIVE LStrip(_)
LStrip(s) == IF s # <<>> /\ Head(s) = " " THEN LStrip(Tail(s)) ELSE s

RECURSIVE RStrip(_)
RStrip(s) ==
    IF s # <<>> /\ s[Len(s)] = " " THEN RStrip(SubSeq(s, 1, Len(s) - 1)) ELSE s

Strip(s) == RStrip(LStrip(s))

\* c in s, for a one-character string c
Contains(s, c) == \E i \in 1..Len(s) : s[i] = c

\* s.find(c) for a one-character string c: zero-based index, -1 when absent
Find(s, c) ==
    IF Contains(s, c)
    THEN (CHOOSE i \in 1..Len(s) : s[i] = c /\ \A j \in 1..(i - 1) : s[j] # c) - 1
    ELSE -1

\* "".join(parts)
RECURSIVE Join(_)
Join(parts) ==
    IF parts = <<>> THEN <<>>
    ELSE IF Len(parts) = 1 THEN parts[1]
    ELSE Join(SubSeq(parts, 1, Len(parts) \div 2))
         \o Join(SubSeq(parts, (Len(parts) \div 2) + 1, Len(parts)))

RECURSIVE Pow(_, _)
Pow(b, e) == IF e <= 0 THEN 1 ELSE b * Pow(b, e - 1)

DecDigits == <<"0","1","2","3","4","5","6","7","8","9">>

\* str(n) for n >= 0
RECURSIVE StrNat(_)
StrNat(n) ==
    IF n < 10 THEN <<DecDigits[n + 1]>>
    ELSE StrNat(n \div 10) \o <<DecDigits[(n % 10) + 1]>>

\* str(n)
StrInt(n) == IF n < 0 THEN <<"-">> \o StrNat(0 - n) ELSE StrNat(n)

\* "{:{width}d}".format(n, width=width)
FormatD(n, width) == RJust(StrInt(n), width, " ")

ValueError == <<"ValueError">>

UnboundLocalError == <<"UnboundLocalError">>

\* value of a string of decimal digits
RECURSIVE DigitsValue(_)
DigitsValue(s) ==
    IF s = <<>> THEN 0
    ELSE 10 * DigitsValue(SubSeq(s, 1, Len(s) - 1)) + Find(DecDigits, s[Len(s)])

AllDigits(s) == s # <<>> /\ \A i \in 1..Len(s) : Contains(DecDigits, s[i])

\* int(s) for s without blanks: an optional sign followed by decimal digits;
\* anything else raises ValueError
PyInt(s) ==
    IF AllDigits(s) THEN [ok |-> TRUE, val |-> DigitsValue(s)]
    ELSE IF s # <<>> /\ Head(s) = "-" /\ AllDigits(Tail(s))
    THEN [ok |-> TRUE, val |-> 0 - DigitsValue(Tail(s))]
    ELSE IF s # <<>> /\ Head(s) = "+" /\ AllDigits(Tail(s))
    THEN [ok |-> TRUE, val |-> DigitsValue(Tail(s))]
    ELSE [ok |-> FALSE, val |-> 0]

(***************************************************************************)
(* Module constants.                                                       *)
(***************************************************************************)
HEADER == <<"A","U","T","H","O","R","S",":"," "," "," "," "," ","M","a","r","t","i","n",","," ","C","a","s","a","n","a","l",","," ","F","e","i","g","l"," "," "," "," "," "," "," "," ","V","E","R","S","I","O","N",":"," ","0",".","4",".","0","\n">>

\* NOMCLA, as a function on the legacy atom names
NOMCLA ==
    ( <<" ","O","1","P">> :> <<" ","O","P","1">> ) @@
    ( <<" ","O","2","P">> :> <<" ","O","P","2">> ) @@
    ( <<" ","C","5","M">> :> <<" ","C","7"," ">> )

\* NOMCLA_BASE, as a function on the legacy residue names
NOMCLA_BASE ==
    ( <<"C","Y","T">> :> <<" ","D","C">> ) @@ ( <<"G","U","A">> :> <<" ","D","G">> ) @@
    ( <<"T","H","Y">> :> <<" ","D","T">> ) @@ ( <<"A","D","E">> :> <<" ","D","A">> ) @@
    ( <<"D","A","5">> :> <<" ","D","A">> ) @@ ( <<"D","A","3">> :> <<" ","D","A">> ) @@
    ( <<"D","T","5">> :> <<" ","D","T">> ) @@ ( <<"D","T","3">> :> <<" ","D","T">> ) @@
    ( <<"D","G","5">> :> <<" ","D","G">> ) @@ ( <<"D","G","3">> :> <<" ","D","G">> ) @@
    ( <<"D","C","5">> :> <<" ","D","C">> ) @@ ( <<"D","C","3">> :> <<" ","D","C">> )

(***************************************************************************)
(* number_to_hybrid36_number                                               *)
(***************************************************************************)
digits_upper == <<"0","1","2","3","4","5","6","7","8","9","A","B","C","D","E","F","G","H","I","J","K","L","M","N","O","P","Q","R","S","T","U","V","W","X","Y","Z">>

digits_lower == <<"0","1","2","3","4","5","6","7","8","9","a","b","c","d","e","f","g","h","i","j","k","l","m","n","o","p","q","r","s","t","u","v","w","x","y","z">>

\* the while loop of encode_pure without result.reverse()
RECURSIVE encode_loop_noreverse(_, _)
encode_loop_noreverse(digits, value) ==
    IF value = 0 THEN <<>>
    ELSE LET n == Len(digits)
             rest == value \div n
         IN  <<digits[(value - rest * n) + 1]>> \o encode_loop_noreverse(digits, rest)

\* the while loop of encode_pure followed by result.reverse()
RECURSIVE encode_loop(_, _)
encode_loop(digits, value) ==
    IF value = 0 THEN <<>>
    ELSE LET n == Len(digits)
             rest == value \div n
         IN  encode_loop(digits, rest) \o <<digits[(value - rest * n) + 1]>>

encode_pure(digits, value) ==
    IF value = 0 THEN <<digits[1]>> ELSE encode_loop(digits, value)

\* hybrid36_bands without the lowercase band
hybrid36_bands_nolower(number, width, p10w, p10, p36) ==
    IF number >= 1 - p10
    THEN IF number < p10w
         THEN FormatD(number, width)
         ELSE IF number - p10w < 26 * p36
              THEN encode_pure(digits_upper, (number - p10w) + 10 * p36)
              ELSE ValueError
    ELSE ValueError

\* hybrid36_bands with the uppercase digits used in the lowercase band too
hybrid36_bands_upper_twice(number, width, p10w, p10, p36) ==
    IF number >= 1 - p10
    THEN IF number < p10w
         THEN FormatD(number, width)
         ELSE IF number - p10w < 26 * p36
              THEN encode_pure(digits_upper, (number - p10w) + 10 * p36)
              ELSE IF (number - p10w) - 26 * p36 < 26 * p36
                   THEN encode_pure(digits_upper,
                                    ((number - p10w) - 26 * p36) + 10 * p36)
                   ELSE ValueError
    ELSE ValueError

\* lines 46-57, with p10w = 10**width, p10 = 10**(width - 1), p36 = 36**(width - 1)
hybrid36_bands(number, width, p10w, p10, p36) ==
    IF number >= 1 - p10
    THEN IF number < p10w
         THEN FormatD(number, width)
         ELSE IF number - p10w < 26 * p36
              THEN encode_pure(digits_upper, (number - p10w) + 10 * p36)
              ELSE IF (number - p10w) - 26 * p36 < 26 * p36
                   THEN encode_pure(digits_lower,
                                    ((number - p10w) - 26 * p36) + 10 * p36)
                   ELSE ValueError
    ELSE ValueError

number_to_hybrid36_number(number, width) ==
    hybrid36_bands(number, width, Pow(10, width), Pow(10, width - 1),
                   Pow(36, width - 1))

(***************************************************************************)
(* class PDB_Corr: the field transformers.                                 *)
(***************************************************************************)
None == <<"None">>

IndexError == <<"IndexError">>

\* self.current as set by __attrs_post_init__
InitCurrent ==
    [atom_number |-> 1,
     old_molecule_number |-> 1,
     last_molecule_number |-> 1,
     chain_id |-> "A",
     chain_id_repeats |-> 1,
     chain |-> None]

\* atom_number_line without the increment of the counter
atom_number_line_noinc(current, line, atom_number_string) ==
    IF atom_number_string = ValueError
    THEN [raised |-> ValueError, line |-> line, current |-> current]
    ELSE [raised |-> None,
          line |-> Slice(line, 0, 5) \o <<" ">> \o atom_number_string
                   \o SliceFrom(line, 11),
          current |-> current]

\* lines 143-144, given the encoded serial
atom_number_line(current, line, atom_number_string) ==
    IF atom_number_string = ValueError
    THEN [raised |-> ValueError, line |-> line, current |-> current]
    ELSE [raised |-> None,
          line |-> Slice(line, 0, 5) \o <<" ">> \o atom_number_string
                   \o SliceFrom(line, 11),
          current |-> [current EXCEPT !.atom_number = @ + 1]]

\* returns [raised, line, current]
correct_atom_number(current, line) ==
    atom_number_line(current, line,
                     number_to_hybrid36_number(current.atom_number, 5))

correct_nomenclature(line) ==
    LET atom0 == Slice(line, 12, 16)
        atom == IF atom0 \in DOMAIN NOMCLA THEN NOMCLA[atom0] ELSE atom0
        base0 == Slice(line, 17, 20)
        base == IF base0 \in DOMAIN NOMCLA_BASE THEN NOMCLA_BASE[base0] ELSE base0
    IN  Slice(line, 0, 12) \o atom \o <<" ">> \o base \o SliceFrom(line, 20)

correct_occupancy(line) ==
    Slice(line, 0, 54) \o <<" "," ","1",".","0","0"," "," ">> \o SliceFrom(line, 62)

remove_H(line) ==
    LET atom == Slice(line, 12, 16)
    IN  IF Contains(atom, "H") THEN <<>> ELSE line

\* returns the new line, or IndexError when the line has no column 13
correct_atomtype(line) ==
    LET atom0 == Slice(line, 12, 14)
    IN  IF Len(atom0) < 2 THEN IndexError
        ELSE LET atom1 == IF Contains(DecDigits, atom0[2]) THEN <<atom0[1]>> ELSE atom0
                 atom == RJust(Strip(atom1), 2, " ")
             IN  Slice(line, 0, 76) \o atom \o SliceFrom(line, 78)

(***************************************************************************)
(* The chain/residue renumbering state machine.                            *)
(***************************************************************************)
possible_chain_ids == <<"A","B","C","D","E","F","G","H","I","J","K","L","M","N","O","P","Q","R","S","T","U","V","W","X","Y","Z">>

\* increase_chain_id wrapping to the first letter
increase_chain_id_wrapA(current_chain_id) ==
    LET pos == Find(possible_chain_ids, current_chain_id)
        chlen == Len(possible_chain_ids)
    IN  IF pos + 1 < chlen
        THEN possible_chain_ids[(pos + 1) + 1]
        ELSE possible_chain_ids[1]

\* increase_chain_id with the index of the current letter returned
increase_chain_id_same(current_chain_id) ==
    LET pos == Find(possible_chain_ids, current_chain_id)
        chlen == Len(possible_chain_ids)
    IN  IF pos + 1 < chlen
        THEN possible_chain_ids[pos + 1]
        ELSE possible_chain_ids[1 + 1]

increase_chain_id(current_chain_id) ==
    LET pos == Find(possible_chain_ids, current_chain_id)
        chlen == Len(possible_chain_ids)
    IN  IF pos + 1 < chlen
        THEN possible_chain_ids[(pos + 1) + 1]
        ELSE possible_chain_ids[1 + 1]

\* renumber with the consecutive residue stepping by 2
renumber_step2(current, chain, molecule_number) ==
    IF current.chain = None
    THEN [new_chain_id |-> current.chain_id,
          new_molecule_number |-> 1,
          is_ter |-> FALSE,
          current |-> [current EXCEPT !.chain = chain]]
    ELSE IF chain = current.chain
    THEN [new_chain_id |-> current.chain_id,
          new_molecule_number |->
              IF molecule_number = current.old_molecule_number
              THEN current.last_molecule_number
              ELSE IF molecule_number = current.old_molecule_number + 1
                   THEN current.last_molecule_number + 2
                   ELSE current.last_molecule_number + 10,
          is_ter |-> molecule_number # current.old_molecule_number
                     /\ molecule_number # current.old_molecule_number + 1,
          current |-> current]
    ELSE [new_chain_id |-> increase_chain_id(current.chain_id),
          new_molecule_number |-> 1,
          is_ter |-> TRUE,
          current |-> IF current.chain_id = "Z"
                      THEN [current EXCEPT !.chain_id_repeats = @ + 1]
                      ELSE current]

\* renumber with a break in the numbering found only at a gap of more than 2
renumber_gap3(current, chain, molecule_number) ==
    IF current.chain = None
    THEN [new_chain_id |-> current.chain_id,
          new_molecule_number |-> 1,
          is_ter |-> FALSE,
          current |-> [current EXCEPT !.chain = chain]]
    ELSE IF chain = current.chain
    THEN [new_chain_id |-> current.chain_id,
          new_molecule_number |->
              IF molecule_number = current.old_molecule_number
              THEN current.last_molecule_number
              ELSE IF molecule_number \in {current.old_molecule_number + 1,
                                           current.old_molecule_number + 2}
                   THEN current.last_molecule_number + 1
                   ELSE current.last_molecule_number + 10,
          is_ter |-> molecule_number # current.old_molecule_number
                     /\ molecule_number # current.old_molecule_number + 1
                     /\ molecule_number # current.old_molecule_number + 2,
          current |-> current]
    ELSE [new_chain_id |-> increase_chain_id(current.chain_id),
          new_molecule_number |-> 1,
          is_ter |-> TRUE,
          current |-> IF current.chain_id = "Z"
                      THEN [current EXCEPT !.chain_id_repeats = @ + 1]
                      ELSE current]

\* the if/elif/else of lines 179-201: the new chain letter, the new residue
\* number, is_ter, and the fields of self.current assigned in the branches
renumber(current, chain, molecule_number) ==
    IF current.chain = None
    THEN [new_chain_id |-> current.chain_id,
          new_molecule_number |-> 1,
          is_ter |-> FALSE,
          current |-> [current EXCEPT !.chain = chain]]
    ELSE IF chain = current.chain
    THEN [new_chain_id |-> current.chain_id,
          new_molecule_number |->
              IF molecule_number = current.old_molecule_number
              THEN current.last_molecule_number
              ELSE IF molecule_number = current.old_molecule_number + 1
                   THEN current.last_molecule_number + 1
                   ELSE current.last_molecule_number + 10,
          is_ter |-> molecule_number # current.old_molecule_number
                     /\ molecule_number # current.old_molecule_number + 1,
          current |-> current]
    ELSE [new_chain_id |-> increase_chain_id(current.chain_id),
          new_molecule_number |-> 1,
          is_ter |-> TRUE,
          current |-> IF current.chain_id = "Z"
                      THEN [current EXCEPT !.chain_id_repeats = @ + 1]
                      ELSE current]

\* str(new_chain_id) + str(chain_id_repeats).rjust(3, "0")
chain_label(new_chain_id, chain_id_repeats) ==
    <<new_chain_id>> \o RJust(StrInt(chain_id_repeats), 3, "0")

\* lines 214-228: the new record and the update of self.current, given the
\* branch taken (r) and the encoded residue number
molecule_chain_line(line, chain, molecule_number, r, new_molecule_number_str) ==
    IF new_molecule_number_str = ValueError
    THEN [raised |-> ValueError, line |-> line, is_ter |-> r.is_ter,
          current |-> r.current]
    ELSE [raised |-> None,
          line |-> Slice(line, 0, 21) \o <<r.new_chain_id>>
                   \o new_molecule_number_str \o Slice(line, 26, 67)
                   \o Rep(" ", 5)
                   \o chain_label(r.new_chain_id, r.current.chain_id_repeats)
                   \o SliceFrom(line, 76),
          is_ter |-> r.is_ter,
          current |-> [r.current EXCEPT
                          !.chain_id = r.new_chain_id,
                          !.chain = chain,
                          !.old_molecule_number = molecule_number,
                          !.last_molecule_number = r.new_molecule_number]]

\* molecule_chain_encode with the new residue number encoded whatever
\* reset_numbers is
molecule_chain_encode_new(line, reset_numbers, chain, molecule_number, r) ==
    molecule_chain_line(line, chain, molecule_number, r,
        number_to_hybrid36_number(r.new_molecule_number, 4))

\* lines 207-212: the residue number that is encoded
molecule_chain_encode(line, reset_numbers, chain, molecule_number, r) ==
    molecule_chain_line(line, chain, molecule_number, r,
        number_to_hybrid36_number(
            IF reset_numbers THEN r.new_molecule_number ELSE molecule_number, 4))

\* lines 177-201, given the result of int()
molecule_chain_parsed(current, line, reset_numbers, parsed) ==
    IF ~parsed.ok
    THEN [raised |-> ValueError, line |-> line, is_ter |-> FALSE,
          current |-> current]
    ELSE molecule_chain_encode(line, reset_numbers, Slice(line, 72, 76), parsed.val,
                               renumber(current, Slice(line, 72, 76), parsed.val))

\* returns [raised, line, is_ter, current]
correct_molecule_chain(current, line, reset_numbers) ==
    molecule_chain_parsed(current, line, reset_numbers,
                          PyInt(RemoveSpaces(Slice(line, 22, 26))))

(***************************************************************************)
(* correct_pdb: one pass over the records.                                 *)
(***************************************************************************)
TER == <<"T","E","R","\n">>

TER_END == <<"T","E","R","\n","E","N","D","\n">>

TITLE_TAG == <<"T","I","T","L","E"," ">>

CRYST1_TAG == <<"C","R","Y","S","T","1">>

ATOM_TAG == <<"A","T","O","M"," "," ">>

\* the locals of correct_pdb before the loop (is_ter is not bound yet);
\* processed records the loop iterations that reached line 135: the input
\* record, the record returned by the renumbering step, what the iteration
\* appended to body, and self.current at the end of the iteration
InitPass(current, logic) ==
    [body |-> IF logic.keep_header THEN <<HEADER>> ELSE <<>>,
     current |-> current,
     is_ter_bound |-> FALSE,
     is_ter |-> FALSE,
     raised |-> None,
     processed |-> <<>>]

\* lines 133-135, given the record left by the transformers
append_record(st, line, mc, an, l6) ==
    [body |-> st.body \o (IF mc.is_ter THEN <<TER>> ELSE <<>>) \o <<l6>>,
     current |-> an.current,
     is_ter_bound |-> TRUE,
     is_ter |-> mc.is_ter,
     raised |-> None,
     processed |-> Append(st.processed,
                          [inp |-> line, renum |-> mc.line,
                           emitted |-> (IF mc.is_ter THEN <<TER>> ELSE <<>>)
                                       \o <<l6>>,
                           current |-> an.current])]

\* lines 131-135, given the record after the occupancy and atom-type steps
after_atomtype(st, line, logic, mc, an, l5) ==
    IF l5 = IndexError
    THEN [st EXCEPT !.raised = IndexError, !.current = an.current,
                    !.is_ter_bound = @ \/ logic.molecule_chain,
                    !.is_ter = mc.is_ter]
    ELSE IF ~(st.is_ter_bound \/ logic.molecule_chain)
    THEN [st EXCEPT !.raised = UnboundLocalError, !.current = an.current]
    ELSE append_record(st, line, mc, an,
                       IF logic.remove_H THEN remove_H(l5) ELSE l5)

\* lines 127-128
occupancy_step(logic, line) ==
    IF logic.occupancy THEN correct_occupancy(line) ELSE line

\* lines 129-130
atomtype_step(logic, line) ==
    IF logic.atomtype THEN correct_atomtype(line) ELSE line

\* lines 127-135, given the result of the atom-number step
after_atom_number(st, line, logic, mc, an) ==
    IF an.raised # None
    THEN [st EXCEPT !.raised = an.raised, !.current = an.current,
                    !.is_ter_bound = @ \/ logic.molecule_chain,
                    !.is_ter = mc.is_ter]
    ELSE after_atomtype(st, line, logic, mc, an,
                        atomtype_step(logic, occupancy_step(logic, an.line)))

\* lines 125-135, given the result of the renumbering step
after_molecule_chain(st, line, logic, mc) ==
    IF mc.raised # None
    THEN [st EXCEPT !.raised = mc.raised, !.current = mc.current]
    ELSE after_atom_number(st, line, logic, mc,
             IF logic.atom_number
             THEN correct_atom_number(mc.current, mc.line)
             ELSE [raised |-> None, line |-> mc.line, current |-> mc.current])

\* lines 120-124: is_ter keeps its value when molecule_chain is disabled
molecule_chain_step(st, logic, l1) ==
    IF logic.molecule_chain
    THEN correct_molecule_chain(st.current, l1, logic.reset_numbers)
    ELSE [raised |-> None, line |-> l1, is_ter |-> st.is_ter,
          current |-> st.current]

\* lines 118-135: the body of the loop for an atom record with an atom name
process_atom(st, line, logic) ==
    after_molecule_chain(st, line, logic,
        molecule_chain_step(st, logic,
            IF logic.nomenclature THEN correct_nomenclature(line) ELSE line))

\* iterate without the test of the atom-name columns
iterate_nocheck(st, line, logic) ==
    LET lineType == Slice(line, 0, 6)
    IN  IF lineType \in {TITLE_TAG, CRYST1_TAG}
        THEN [st EXCEPT !.body = Append(@, line)]
        ELSE IF lineType = ATOM_TAG
        THEN process_atom(st, line, logic)
        ELSE st

\* lines 112-135: one iteration of the loop
iterate(st, line, logic) ==
    LET lineType == Slice(line, 0, 6)
    IN  IF lineType \in {TITLE_TAG, CRYST1_TAG}
        THEN [st EXCEPT !.body = Append(@, line)]
        ELSE IF lineType = ATOM_TAG
        THEN LET no_atom_check == Slice(line, 13, 15)
             IN  IF ~(no_atom_check = <<" "," ">>)
                 THEN process_atom(st, line, logic)
                 ELSE st
        ELSE st

\* the loop of lines 111-135, left at the first exception
RECURSIVE loop(_, _, _)
loop(st, lines, logic) ==
    IF lines = <<>> \/ st.raised # None THEN st
    ELSE loop(iterate(st, Head(lines), logic), Tail(lines), logic)

\* pass_result with the text joined from body returned after an exception too
pass_result_partial(st) ==
    [raised |-> st.raised,
     value |-> Join(Append(st.body, TER_END)),
     current |-> st.current,
     processed |-> st.processed]

\* lines 137-138: the result of the call, given the locals at the end of the loop
pass_result(st) ==
    [raised |-> st.raised,
     value |-> IF st.raised = None THEN Join(Append(st.body, TER_END)) ELSE <<>>,
     current |-> st.current,
     processed |-> st.processed]

\* correct_pdb: the exception raised or the value returned, and self.current
correct_pdb(current, pdb_file, logic) ==
    pass_result(loop(InitPass(current, logic), pdb_file, logic))

(***************************************************************************)
(* reshuffle_pdb                                                           *)
(***************************************************************************)
\* the code points of the characters of the records modelled, in increasing
\* order: str comparison compares code points
CodePoints == <<"\n"," ","'","+","-",".","0","1","2","3","4","5","6","7","8","9",":","A","B","C","D","E","F","G","H","I","J","K","L","M","N","O","P","Q","R","S","T","U","V","W","X","Y","Z","a","b","c","d","e","f","g","h","i","j","k","l","m","n","o","p","q","r","s","t","u","v","w","x","y","z">>

\* the rank of each character in that order
CodeRank ==
    [c \in {CodePoints[i] : i \in 1..Len(CodePoints)} |-> Find(CodePoints, c)]

\* a < b for two str
StrLess(a, b) ==
    \/ Len(a) < Len(b) /\ SubSeq(b, 1, Len(a)) = a
    \/ \E i \in 1..Min(Len(a), Len(b)) :
           /\ SubSeq(a, 1, i - 1) = SubSeq(b, 1, i - 1)
           /\ CodeRank[a[i]] < CodeRank[b[i]]

\* the key of line 102: (x[72:76], int(x[22:27].strip()))
sort_key(x) ==
    [label |-> Slice(x, 72, 76), number |-> PyInt(Strip(Slice(x, 22, 27)))]

\* k1 < k2 for two keys (tuple comparison)
KeyLess(k1, k2) ==
    \/ StrLess(k1.label, k2.label)
    \/ k1.label = k2.label /\ k1.number.val < k2.number.val

\* insertion of x before the records that come before it in the result
RECURSIVE sort_insert_before_equal(_, _)
sort_insert_before_equal(sorted, x) ==
    IF sorted = <<>> THEN <<x>>
    ELSE IF ~KeyLess(sort_key(Head(sorted)), sort_key(x)) THEN <<x>> \o sorted
    ELSE <<Head(sorted)>> \o sort_insert_before_equal(Tail(sorted), x)

\* list.sort is stable: x goes after the records whose key is not greater
RECURSIVE sort_insert(_, _)
sort_insert(sorted, x) ==
    IF sorted = <<>> THEN <<x>>
    ELSE IF KeyLess(sort_key(x), sort_key(Head(sorted))) THEN <<x>> \o sorted
    ELSE <<Head(sorted)>> \o sort_insert(Tail(sorted), x)

\* unshuff_file.sort(key=...), for records whose keys can be computed
RECURSIVE sort(_)
sort(unshuff_file) ==
    IF unshuff_file = <<>> THEN <<>>
    ELSE sort_insert(sort(SubSeq(unshuff_file, 1, Len(unshuff_file) - 1)),
                     unshuff_file[Len(unshuff_file)])

\* reshuffle_pdb: the list returned, or ValueError when int() raises for the
\* key of some ATOM record
reshuffle_pdb(pdb_file) ==
    LET is_atom(line) == Slice(line, 0, 6) = ATOM_TAG
        is_rem(line) == ~is_atom(line)
        unshuff_file == SelectSeq(pdb_file, is_atom)
        rem == SelectSeq(pdb_file, is_rem)
    IN  IF \E i \in 1..Len(unshuff_file) : ~sort_key(unshuff_file[i]).number.ok
        THEN ValueError
        ELSE rem \o sort(unshuff_file)

(***************************************************************************)
(* The records and policies the model feeds to correct_pdb.                *)
(***************************************************************************)
\* the coordinate columns [30,54); digit d tells the records apart
Coords(d) == <<" "," ","1">> \o StrNat(d) \o <<".","1","0","4"," "," "," ","6",".","1","3","4"," "," ","-","6",".","5","0","4">>

OccTemp == <<" "," ","0",".","5","0"," ","2","0",".","0","0">>

\* an 80-column ATOM record
Atom(serial, name, resName, resSeq, seg, d) ==
    ATOM_TAG \o FormatD(serial, 5) \o <<" ">> \o name \o <<" ">> \o resName
    \o <<" ", "X">> \o FormatD(resSeq, 4) \o <<" ">> \o Rep(" ", 3) \o Coords(d)
    \o OccTemp \o Rep(" ", 6) \o seg \o <<" ", "X">> \o Rep(" ", 2) \o <<"\n">>

NameC == <<" ","C","4","'">>

NameH == <<" ","H","4","'">>

NameBlank == <<" "," "," "," ">>

NameLeft == <<"C"," "," "," ">>

NameLegacy == <<" ","O","1","P">>

ResDA == <<" ","D","A">>

ResLegacy == <<"C","Y","T">>

Seg1 == <<"S","0","0","1">>

Seg2 == <<"S","0","0","2">>

TitleLine == TITLE_TAG \o <<" "," "," "," ","f","i","t","\n">>

\* the records of Spec: three residues of one segment (numbers 1, 2 and 4, the
\* second with legacy names), a carbon and a hydrogen of a second segment, a
\* record with a blank atom name, one with a left-justified atom name, a title
Lines ==
    { Atom(7, NameC, ResDA, 1, Seg1, 1),
      Atom(14, NameLegacy, ResLegacy, 2, Seg1, 2),
      Atom(28, NameC, ResDA, 4, Seg1, 3),
      Atom(2, NameC, ResDA, 1, Seg2, 4),
      Atom(3, NameH, ResDA, 1, Seg2, 5),
      Atom(5, NameBlank, ResDA, 2, Seg2, 6),
      Atom(5, NameLeft, ResDA, 1, Seg1, 7),
      TitleLine }

Files == UNION { [1..k -> Lines] : k \in 0..MaxLen }

\* class Logic: every combination of the eight flags
Logics ==
    [nomenclature : BOOLEAN, molecule_chain : BOOLEAN, atom_number : BOOLEAN,
     occupancy : BOOLEAN, atomtype : BOOLEAN, remove_H : BOOLEAN,
     reset_numbers : BOOLEAN, keep_header : BOOLEAN]

(***************************************************************************)
(* The state machine: one PDB_Corr instance and the calls made on it.      *)
(***************************************************************************)
VARIABLES
    current,     \* self.current
    calls,       \* number of calls made on the instance
    pdb_file,    \* the records handed to the most recent call
    logic,       \* the policy of the most recent call
    results,     \* per call: the exception raised (or None) and the value returned
    processed,   \* the loop iterations of the most recent call
    codec,       \* a call of number_to_hybrid36_number: arguments and result
    newFile_list \* what the most recent reshuffle_pdb call returned or raised

vars == <<current, calls, pdb_file, logic, results, processed, codec, newFile_list>>

\* no call of number_to_hybrid36_number from outside the class
NoCodec == [number |-> 0, width |-> 1, result |-> None]

\* the instance after PDB_Corr()
Init ==
    /\ current = InitCurrent
    /\ calls = 0
    /\ pdb_file = <<>>
    /\ logic = [nomenclature |-> TRUE, molecule_chain |-> TRUE, atom_number |-> TRUE,
                occupancy |-> TRUE, atomtype |-> TRUE, remove_H |-> TRUE,
                reset_numbers |-> TRUE, keep_header |-> TRUE]
    /\ results = <<>>
    /\ processed = <<>>
    /\ codec = NoCodec
    /\ newFile_list = <<>>

\* the instance and the caller after a call with result r
AfterCall(f, lg, r) ==
    /\ current' = r.current
    /\ calls' = calls + 1
    /\ pdb_file' = f
    /\ logic' = lg
    /\ results' = Append(results, [raised |-> r.raised, value |-> r.value])
    /\ processed' = r.processed
    /\ UNCHANGED <<codec, newFile_list>>

\* self.correct_pdb(f, lg)
DoCall(f, lg) == AfterCall(f, lg, correct_pdb(current, f, lg))

\* the first call on the instance
Call == calls = 0 /\ \E f \in Files, lg \in Logics : DoCall(f, lg)

\* a further call on the same instance, with the same records and policy
Recall == calls > 0 /\ calls < MaxCalls /\ DoCall(pdb_file, logic)

Next == Call \/ Recall

Spec == Init /\ [][Next]_vars

(***************************************************************************)
(* Passes over many segments: every segment has its own segment id.        *)
(***************************************************************************)
SegId(i) == <<"S">> \o RJust(StrNat(i), 3, "0")

\* k segments of m atoms each, the atoms of a segment in residues 1..m
WrapFile(k, m) ==
    [i \in 1..(k * m) |->
        Atom(i, NameC, ResDA, ((i - 1) % m) + 1, SegId(((i - 1) \div m) + 1), i % 10)]

WrapFiles == { WrapFile(k, m) : k \in 0..MaxSegs, m \in 1..2 }

WrapLogics ==
    { lg \in Logics : lg.nomenclature /\ lg.occupancy /\ lg.atomtype /\ lg.keep_header }

CallWrap == calls = 0 /\ \E f \in WrapFiles, lg \in WrapLogics : DoCall(f, lg)

NextWrap == CallWrap \/ Recall

SpecWrap == Init /\ [][NextWrap]_vars

(***************************************************************************)
(* Passes under the policies that differ in the renumbering flags, the     *)
(* serial flag and hydrogen removal only.                                  *)
(***************************************************************************)
ResetLogics ==
    { lg \in Logics : lg.nomenclature /\ lg.occupancy /\ lg.atomtype /\ lg.keep_header }

CallReset == calls = 0 /\ \E f \in Files, lg \in ResetLogics : DoCall(f, lg)

NextReset == CallReset \/ Recall

SpecReset == Init /\ [][NextReset]_vars

(***************************************************************************)
(* Passes over records of every kind: title and crystal records, records   *)
(* of other types, and ATOM records with a malformed residue number, a     *)
(* blank atom name or an alternate-location character.                     *)
(***************************************************************************)
Cryst1Line == CRYST1_TAG \o <<" "," "," ","1",".","0","0","0","\n">>

EndLine == <<"E","N","D","\n">>

RemarkLine == <<"R","E","M","A","R","K"," ","f","i","t","\n">>

\* an ATOM record whose residue-number columns [22,26) read "   A"
AtomBadRes(serial, name, d) ==
    [Atom(serial, name, ResDA, 1, Seg1, d) EXCEPT ![26] = "A"]

\* an ATOM record with the alternate-location character A in column 16
AtomAltLoc(serial, name, d) ==
    [Atom(serial, name, ResDA, 1, Seg1, d) EXCEPT ![17] = "A"]

RecLines ==
    { Atom(7, NameC, ResDA, 1, Seg1, 1),
      Atom(3, NameH, ResDA, 1, Seg2, 2),
      AtomBadRes(4, NameC, 3),
      AtomBadRes(5, NameBlank, 4),
      AtomAltLoc(6, NameC, 5),
      TitleLine, Cryst1Line, TER, EndLine, RemarkLine }

RecFiles == UNION { [1..k -> RecLines] : k \in 0..MaxLen }

RecLogics == { lg \in Logics : lg.occupancy /\ lg.atomtype }

CallRec == calls = 0 /\ \E f \in RecFiles, lg \in RecLogics : DoCall(f, lg)

NextRec == CallRec \/ Recall

SpecRec == Init /\ [][NextRec]_vars

(***************************************************************************)
(* Calls of number_to_hybrid36_number on its own: the arguments are drawn  *)
(* from the widths 1..MaxWidth and the numbers -MaxNeg..MaxNumber.         *)
(***************************************************************************)
Widths == 1..MaxWidth

Numbers == (0 - MaxNeg)..MaxNumber

InitCodec ==
    /\ current = InitCurrent
    /\ calls = 0
    /\ pdb_file = <<>>
    /\ logic = [nomenclature |-> TRUE, molecule_chain |-> TRUE, atom_number |-> TRUE,
                occupancy |-> TRUE, atomtype |-> TRUE, remove_H |-> TRUE,
                reset_numbers |-> TRUE, keep_header |-> TRUE]
    /\ results = <<>>
    /\ processed = <<>>
    /\ codec \in [number : Numbers, width : Widths, result : {None}]
    /\ newFile_list = <<>>

\* number_to_hybrid36_number(number, width)
Encode ==
    /\ codec.result = None
    /\ codec' = [codec EXCEPT
                    !.result = number_to_hybrid36_number(codec.number, codec.width)]
    /\ UNCHANGED <<current, calls, pdb_file, logic, results, processed, newFile_list>>

NextCodec == Encode

SpecCodec == InitCodec /\ [][NextCodec]_vars

(***************************************************************************)
(* Calls of reshuffle_pdb: on a record sequence, then on its own result.   *)
(***************************************************************************)
\* two records of residue 2 of one segment, residue 10 of the same segment,
\* a record of a second segment, a record whose residue number is not
\* decimal, a title and a TER record
ShuffleLines ==
    { Atom(1, NameC, ResDA, 2, Seg1, 1),
      Atom(2, NameC, ResDA, 2, Seg1, 2),
      Atom(3, NameC, ResDA, 10, Seg1, 3),
      Atom(5, NameC, ResDA, 1, Seg2, 5),
      AtomBadRes(6, NameC, 6),
      TitleLine, TER }

ShuffleFiles == UNION { [1..k -> ShuffleLines] : k \in 0..MaxShuffle }

\* self.reshuffle_pdb(f)
Reshuffle ==
    /\ calls = 0
    /\ \E f \in ShuffleFiles :
           /\ pdb_file' = f
           /\ newFile_list' = reshuffle_pdb(f)
    /\ calls' = 1
    /\ UNCHANGED <<current, logic, results, processed, codec>>

\* self.reshuffle_pdb(newFile_list), on the list the first call returned
ReshuffleAgain ==
    /\ calls = 1
    /\ newFile_list # ValueError
    /\ pdb_file' = newFile_list
    /\ newFile_list' = reshuffle_pdb(newFile_list)
    /\ calls' = 2
    /\ UNCHANGED <<current, logic, results, processed, codec>>

NextShuffle == Reshuffle \/ ReshuffleAgain

SpecShuffle == Init /\ [][NextShuffle]_vars

(***************************************************************************)
(* Reading the records and the output.                                     *)
(***************************************************************************)
\* the result of the most recent call
LastResult == results[Len(results)]

\* the most recent call returned its output
Returned == calls > 0 /\ LastResult.raised = None

\* the lines of a text, each with its newline
OutLines(text) ==
    LET nl == {i \in 1..Len(text) : text[i] = "\n"}
        end(k) == CHOOSE i \in nl : Cardinality({j \in nl : j <= i}) = k
    IN  [k \in 1..Cardinality(nl) |->
            SubSeq(text, IF k = 1 THEN 1 ELSE end(k - 1) + 1, end(k))]

IsAtomLine(l) == Slice(l, 0, 6) = ATOM_TAG

\* the ATOM lines of a text, in order
OutAtoms(text) == SelectSeq(OutLines(text), IsAtomLine)

\* the decimal number in columns [a,b) of a record
FieldInt(l, a, b) == PyInt(RemoveSpaces(Slice(l, a, b))).val

InSeg(e) == Slice(e.inp, 72, 76)

InRes(e) == FieldInt(e.inp, 22, 26)

OutRes(e) == FieldInt(e.renum, 22, 26)

OutChain(e) == e.renum[22]

OutLabel(e) == Slice(e.renum, 72, 76)

\* the iteration appended a TER before its record
TerBefore(e) == e.emitted[1] = TER /\ Len(e.emitted) = 2

\* the pairs of consecutive processed atom records of the most recent call
Pairs == { i \in 1..Len(processed) : i > 1 }

(***************************************************************************)
(* C1: with molecule_chain and reset_numbers enabled, two consecutive      *)
(* processed atom records of one input segment whose input residue numbers *)
(* are equal get the same output residue number, and whose input residue   *)
(* numbers are consecutive get consecutive output residue numbers; in both *)
(* cases no TER is inserted before the second record.                      *)
(***************************************************************************)
C1_SameSegmentContiguous ==
    (logic.molecule_chain /\ logic.reset_numbers) =>
        \A i \in Pairs :
            LET p == processed[i - 1]
                q == processed[i]
            IN  InSeg(q) = InSeg(p) =>
                    /\ InRes(q) = InRes(p) =>
                           OutRes(q) = OutRes(p) /\ ~TerBefore(q)
                    /\ InRes(q) = InRes(p) + 1 =>
                           OutRes(q) = OutRes(p) + 1 /\ ~TerBefore(q)

\* C1, witness: a second pass on the instance: residue 1 follows residue 2 of the first pass
\* (output 12), then residue 2 follows it in the same segment (output 13)
C1_Witness ==
    /\ logic.molecule_chain /\ logic.reset_numbers
    /\ \E i \in Pairs :
           /\ InSeg(processed[i]) = InSeg(processed[i - 1])
           /\ InRes(processed[i]) = InRes(processed[i - 1]) + 1
           /\ OutRes(processed[i]) = 13

(***************************************************************************)
(* C2: with molecule_chain and reset_numbers enabled, two consecutive      *)
(* processed atom records of one input segment whose input residue number  *)
(* neither repeats nor steps by one get output residue numbers 10 apart,   *)
(* and a TER is inserted before the second record.                         *)
(***************************************************************************)
C2_SameSegmentBreak ==
    (logic.molecule_chain /\ logic.reset_numbers) =>
        \A i \in Pairs :
            LET p == processed[i - 1]
                q == processed[i]
            IN  ( /\ InSeg(q) = InSeg(p)
                  /\ InRes(q) # InRes(p)
                  /\ InRes(q) # InRes(p) + 1 ) =>
                    OutRes(q) = OutRes(p) + 10 /\ TerBefore(q)

\* C2, witness: a gap of exactly 2 (residue 2 followed by residue 4)
C2_Witness ==
    /\ logic.molecule_chain /\ logic.reset_numbers
    /\ \E i \in Pairs :
           /\ InSeg(processed[i]) = InSeg(processed[i - 1])
           /\ InRes(processed[i]) = InRes(processed[i - 1]) + 2
           /\ TerBefore(processed[i])

(***************************************************************************)
(* C3: with molecule_chain enabled, for two consecutive processed atom     *)
(* records of different input segments the second record's chain letter is *)
(* the one after the first record's (Z is followed by B), a TER is         *)
(* inserted before it, the renumbering state's output residue number is    *)
(* reset to 1, and with reset_numbers enabled the residue-number column of *)
(* the second record is 1.                                                 *)
(***************************************************************************)
LetterAfter(c) ==
    IF c = "Z" THEN "B"
    ELSE possible_chain_ids[Find(possible_chain_ids, c) + 2]

C3_SegmentChange ==
    logic.molecule_chain =>
        \A i \in Pairs :
            LET p == processed[i - 1]
                q == processed[i]
            IN  InSeg(q) # InSeg(p) =>
                    /\ OutChain(q) = LetterAfter(OutChain(p))
                    /\ OutChain(q) # OutChain(p)
                    /\ TerBefore(q)
                    /\ q.current.last_molecule_number = 1
                    /\ logic.reset_numbers => OutRes(q) = 1

\* C3 as stated: the residue number of the second record is 1 whatever
\* the flags and the input residue numbers are
C3_Original ==
    logic.molecule_chain =>
        \A i \in Pairs :
            LET p == processed[i - 1]
                q == processed[i]
            IN  InSeg(q) # InSeg(p) =>
                    /\ OutChain(q) = LetterAfter(OutChain(p))
                    /\ OutChain(q) # OutChain(p)
                    /\ TerBefore(q)
                    /\ OutRes(q) = 1

\* C3, witness: a segment change onto a record whose input residue number is 4, in a second
\* pass with reset_numbers disabled
C3_Witness ==
    /\ logic.molecule_chain
    /\ \E i \in Pairs :
           /\ InSeg(processed[i]) # InSeg(processed[i - 1])
           /\ InRes(processed[i]) = 4
           /\ ~logic.reset_numbers
           /\ OutRes(processed[i]) = 4
           /\ OutChain(processed[i]) = "D"

(***************************************************************************)
(* C5: in the returned text every TER line but the final one is            *)
(* immediately followed by an atom record (so no two TER lines are         *)
(* adjacent), and there are as many of them as records for which the       *)
(* renumbering signalled a break, for every flag setting.                  *)
(***************************************************************************)
C5_Original ==
    Returned =>
        LET ls == OutLines(LastResult.value)
            n == Len(ls)
        IN  /\ \A k \in 1..(n - 2) : ls[k] = TER => IsAtomLine(ls[k + 1])
            /\ Cardinality({k \in 1..(n - 2) : ls[k] = TER})
                   = Cardinality({i \in 1..Len(processed) : TerBefore(processed[i])})

(***************************************************************************)
(* C6: with atom_number enabled, the k-th atom record of the returned text *)
(* carries the width-5 encoding of k (stated for the first pass of an      *)
(* instance, where the counter starts at 1).                               *)
(***************************************************************************)
C6_Original ==
    (logic.atom_number /\ Returned /\ calls = 1) =>
        LET atoms == OutAtoms(LastResult.value)
        IN  \A k \in 1..Len(atoms) :
                Slice(atoms[k], 6, 11) = number_to_hybrid36_number(k, 5)

(***************************************************************************)
(* C7: with atom_number enabled, the serials of the atom records of the    *)
(* returned text are strictly increasing in output order (hence pairwise   *)
(* distinct), whatever the serials of the input records are.               *)
(***************************************************************************)
C7_SerialsIncrease ==
    (logic.atom_number /\ Returned) =>
        LET atoms == OutAtoms(LastResult.value)
        IN  \A j, k \in 1..Len(atoms) :
                j < k => FieldInt(atoms[j], 6, 11) < FieldInt(atoms[k], 6, 11)

\* C7, witness: a second pass over two records whose input serials decrease: serials 3, 4
C7_Witness ==
    /\ logic.atom_number /\ Returned
    /\ Len(pdb_file) = 2
    /\ FieldInt(pdb_file[1], 6, 11) > FieldInt(pdb_file[2], 6, 11)
    /\ LET atoms == OutAtoms(LastResult.value)
       IN  Len(atoms) = 2 /\ FieldInt(atoms[1], 6, 11) = 3
           /\ FieldInt(atoms[2], 6, 11) = 4

(***************************************************************************)
(* C8: with remove_H enabled, the atom records of the returned text are,   *)
(* one to one and in input order, the input ATOM records whose atom-name   *)
(* columns [12,16) are not blank and do not contain H (the coordinate      *)
(* columns tell the records apart).                                        *)
(***************************************************************************)
KeptByName(l) ==
    /\ IsAtomLine(l)
    /\ Slice(l, 12, 16) # <<" "," "," "," ">>
    /\ ~Contains(Slice(l, 12, 16), "H")

C8_Original ==
    (logic.remove_H /\ Returned) =>
        LET atoms == OutAtoms(LastResult.value)
            kept == SelectSeq(pdb_file, KeptByName)
        IN  /\ Len(atoms) = Len(kept)
            /\ \A k \in 1..Len(atoms) :
                   Slice(atoms[k], 30, 54) = Slice(kept[k], 30, 54)

(***************************************************************************)
(* C9: every pass starts from the initial renumbering state: its first     *)
(* processed atom record gets chain letter A, residue number 1, serial 1   *)
(* and no TER, and a second call on the same instance with the same        *)
(* records and policy returns what the first call returned.                *)
(***************************************************************************)
C9_Original ==
    /\ (Len(processed) >= 1 /\ logic.molecule_chain /\ logic.reset_numbers
        /\ logic.atom_number) =>
           LET e == processed[1]
               out == e.emitted[Len(e.emitted)]
           IN  /\ OutChain(e) = "A"
               /\ OutRes(e) = 1
               /\ ~TerBefore(e)
               /\ out # <<>> => FieldInt(out, 6, 11) = 1
    /\ Len(results) >= 2 => results[2] = results[1]

(***************************************************************************)
(* C10: for every combination of the eight flags a call on well-formed     *)
(* records with at least one atom record completes; with molecule_chain    *)
(* disabled the chain, residue-number and label columns of every atom      *)
(* record stay as in the input and no TER but the final one is emitted.    *)
(***************************************************************************)
C10_Original ==
    (calls > 0 /\ \E i \in 1..Len(pdb_file) : IsAtomLine(pdb_file[i])) =>
        /\ LastResult.raised = None
        /\ ~logic.molecule_chain =>
               \A i \in 1..Len(processed) :
                   /\ ~TerBefore(processed[i])
                   /\ Slice(processed[i].renum, 21, 26) = Slice(processed[i].inp, 21, 26)
                   /\ Slice(processed[i].renum, 72, 76) = Slice(processed[i].inp, 72, 76)

(***************************************************************************)
(* C4: the repeat counter of the label [72,76) increments, and the chain   *)
(* letter wraps to B, at the segment change that follows chain letter Z:   *)
(* in a pass that starts from the initial state that is the 27th segment   *)
(* (after 26 distinct segment ids, which get A..Z), then every 25          *)
(* segments; A is never assigned at a segment change, so it is carried     *)
(* only by records of the first segment of a pass.                         *)
(***************************************************************************)
\* the number of the input segment of the i-th processed record of the pass
SegIndex(i) ==
    1 + Cardinality({ j \in 2..i : InSeg(processed[j]) # InSeg(processed[j - 1]) })

OutRepeats(e) == FieldInt(e.renum, 73, 76)

\* the label of the k-th segment of a pass that starts from the initial state
ExpectedLabel(k) ==
    IF k = 1 THEN <<"A","0","0","1">>
    ELSE <<possible_chain_ids[((k - 2) % 25) + 2]>>
         \o RJust(StrNat(1 + ((k - 2) \div 25)), 3, "0")

C4_WrapAfterZ ==
    logic.molecule_chain =>
        /\ \A i \in Pairs :
               LET p == processed[i - 1]
                   q == processed[i]
               IN  InSeg(q) # InSeg(p) =>
                       /\ OutChain(q) # "A"
                       /\ OutChain(p) = "Z" =>
                              OutChain(q) = "B" /\ OutRepeats(q) = OutRepeats(p) + 1
                       /\ OutChain(p) # "Z" => OutRepeats(q) = OutRepeats(p)
        /\ \A i \in 1..Len(processed) :
               OutChain(processed[i]) = "A" => SegIndex(i) = 1
        /\ calls = 1 =>
               \A i \in 1..Len(processed) :
                   OutLabel(processed[i]) = ExpectedLabel(SegIndex(i))

\* C4 as stated: the segment that follows 25 distinct segment ids (the
\* 26th) carries B002, in a pass that starts from the initial state
C4_Original ==
    (logic.molecule_chain /\ calls = 1) =>
        /\ \A i \in 1..Len(processed) :
               SegIndex(i) = 26 => OutLabel(processed[i]) = <<"B","0","0","2">>
        /\ \A i \in 1..Len(processed) :
               OutChain(processed[i]) = "A" => SegIndex(i) = 1

\* C4, witness: the second wrap of a first pass: the 52nd segment carries B003
C4_Witness ==
    /\ logic.molecule_chain /\ calls = 1
    /\ \E i \in 1..Len(processed) :
           /\ SegIndex(i) = 52
           /\ OutLabel(processed[i]) = <<"B","0","0","3">>
           /\ OutLabel(processed[1]) = <<"A","0","0","1">>

(***************************************************************************)
(* C11: for every record sequence (the empty one and ones with TER and END *)
(* records included) the returned text ends with exactly one TER line      *)
(* followed by one END line, END occurs nowhere else, and the header line  *)
(* occurs exactly once, as the first line, when keep_header is enabled and *)
(* not at all when it is disabled.                                         *)
(***************************************************************************)
C11_Original ==
    Returned =>
        LET ls == OutLines(LastResult.value)
            n == Len(ls)
        IN  /\ n >= 2
            /\ ls[n] = EndLine
            /\ ls[n - 1] = TER
            /\ n >= 3 => ls[n - 2] # TER
            /\ \A k \in 1..(n - 1) : ls[k] # EndLine
            /\ Cardinality({k \in 1..n : ls[k] = HEADER})
                   = (IF logic.keep_header THEN 1 ELSE 0)
            /\ logic.keep_header => ls[1] = HEADER

(***************************************************************************)
(* C12: in the returned text every preserved TITLE or CRYST1 line precedes *)
(* every atom line and every TER line but the final one, whatever the      *)
(* order of the records in the input is, and records of any other type are *)
(* not copied.                                                             *)
(***************************************************************************)
IsMetaLine(l) == Slice(l, 0, 6) \in {TITLE_TAG, CRYST1_TAG}

C12_Original ==
    Returned =>
        LET ls == OutLines(LastResult.value)
            n == Len(ls)
        IN  /\ \A j, k \in 1..n :
                   ( /\ IsMetaLine(ls[j])
                     /\ IsAtomLine(ls[k]) \/ (ls[k] = TER /\ k < n - 1) ) => j < k
            /\ \A k \in 1..n :
                   \/ IsMetaLine(ls[k]) \/ IsAtomLine(ls[k])
                   \/ ls[k] \in {HEADER, TER, EndLine}

(***************************************************************************)
(* C13: a failure inside a pass is raised to the caller and nothing is     *)
(* returned: after an exception of any kind the call has no value, and     *)
(* with molecule_chain enabled an atom record (atom name not blank) whose  *)
(* residue-number columns are not a decimal integer makes the call raise   *)
(* ValueError, however many records were processed before it.              *)
(***************************************************************************)
FailingAtom(l) ==
    /\ IsAtomLine(l)
    /\ Slice(l, 13, 15) # <<" "," ">>
    /\ ~PyInt(RemoveSpaces(Slice(l, 22, 26))).ok

C13_FailureRaises ==
    calls > 0 =>
        /\ LastResult.raised # None => LastResult.value = <<>>
        /\ (logic.molecule_chain
            /\ \E i \in 1..Len(pdb_file) : FailingAtom(pdb_file[i])) =>
               LastResult.raised = ValueError /\ LastResult.value = <<>>

\* C13, witness: the second record fails after the first one was processed
\* and appended to body
C13_Witness ==
    /\ calls > 0
    /\ Len(pdb_file) = 2
    /\ FailingAtom(pdb_file[2])
    /\ Len(processed) = 1
    /\ processed[1].emitted # <<<<>>>>
    /\ LastResult.raised = ValueError
    /\ LastResult.value = <<>>

(***************************************************************************)
(* Reading the results of number_to_hybrid36_number.                       *)
(***************************************************************************)
\* the call was made and returned a string
Accepted == codec.result # None /\ codec.result # ValueError

\* the codes of all the numbers of the model, per width
CodeTable ==
    [w \in Widths |-> [v \in Numbers |-> number_to_hybrid36_number(v, w)]]

\* the band of a number: the decimal band, the two base-36 bands, or none
Band(v, w) ==
    IF v < 1 - Pow(10, w - 1) THEN "none"
    ELSE IF v < Pow(10, w) THEN "decimal"
    ELSE IF v < Pow(10, w) + 26 * Pow(36, w - 1) THEN "upper"
    ELSE IF v < Pow(10, w) + 2 * 26 * Pow(36, w - 1) THEN "lower"
    ELSE "none"

BandTable == [w \in Widths |-> [v \in Numbers |-> Band(v, w)]]

(***************************************************************************)
(* C14: every string the codec returns has exactly width characters;       *)
(* within the uppercase band, within the lowercase band and among the      *)
(* non-negative numbers of the decimal band a smaller number has a code    *)
(* that sorts strictly before the code of a larger one; the first code of  *)
(* the uppercase band is A followed by zeros.                              *)
(***************************************************************************)
C14_WidthAndOrder ==
    Accepted =>
        /\ Len(codec.result) = codec.width
        /\ codec.number >= 0 =>
               \A v2 \in (codec.number + 1)..MaxNumber :
                   BandTable[codec.width][v2] = BandTable[codec.width][codec.number] =>
                       StrLess(codec.result, CodeTable[codec.width][v2])
        /\ codec.number = Pow(10, codec.width) =>
               codec.result = <<"A">> \o Rep("0", codec.width - 1)

\* C14 as stated: the order holds for every two numbers of the decimal band
\* that the codec accepts, the negative ones included
C14_Original ==
    Accepted =>
        /\ Len(codec.result) = codec.width
        /\ \A v2 \in (codec.number + 1)..MaxNumber :
               BandTable[codec.width][v2] = BandTable[codec.width][codec.number] =>
                   StrLess(codec.result, CodeTable[codec.width][v2])
        /\ codec.number = Pow(10, codec.width) =>
               codec.result = <<"A">> \o Rep("0", codec.width - 1)

\* C14, witness: the last code of the uppercase band that starts with A
\* (AZ for 135) and its successor B0
C14_Witness ==
    /\ codec.width = 2
    /\ codec.number = 135
    /\ codec.result = <<"A","Z">>
    /\ CodeTable[2][136] = <<"B","0">>

(***************************************************************************)
(* C15: the codec raises ValueError exactly for the numbers outside the    *)
(* three bands, that is below 1 - 10^(width-1) or from                     *)
(* 10^width + 2*26*36^(width-1) on, and returns a string of width          *)
(* characters for every other number; for width 2 the upper limit is 1972  *)
(* (100 decimal codes, 936 uppercase and 936 lowercase ones).              *)
(***************************************************************************)
C15_RangeError ==
    codec.result # None =>
        /\ codec.result = ValueError <=>
               \/ codec.number < 1 - Pow(10, codec.width - 1)
               \/ codec.number >= Pow(10, codec.width)
                                     + 2 * 26 * Pow(36, codec.width - 1)
        /\ codec.result # ValueError => Len(codec.result) = codec.width
        /\ codec.width = 2 =>
               (codec.result = ValueError <=>
                    (codec.number < 0 - 9 \/ codec.number >= 1972))

\* C15 as stated: the only failures are those above the bands, and for
\* width 2 every number from 1882 on fails
C15_Original ==
    codec.result # None =>
        /\ codec.result = ValueError <=>
               codec.number >= Pow(10, codec.width)
                                 + 2 * 26 * Pow(36, codec.width - 1)
        /\ codec.result # ValueError => Len(codec.result) = codec.width
        /\ (codec.width = 2 /\ codec.number >= 1882) => codec.result = ValueError

\* C15, witness: width 2 fails for 1972, right after the last lowercase code zz
C15_Witness ==
    /\ codec.width = 2
    /\ codec.number = 1972
    /\ codec.result = ValueError
    /\ CodeTable[2][1971] = <<"z","z">>

(***************************************************************************)
(* C16: for a fixed width two distinct numbers the codec accepts (of any   *)
(* of the three bands) have distinct codes, and for 0 <= v < 10^width the  *)
(* code read as a right-justified decimal number is v.                     *)
(***************************************************************************)
C16_UniquelyDecodable ==
    Accepted =>
        /\ \A v2 \in Numbers \ {codec.number} :
               CodeTable[codec.width][v2] # codec.result
        /\ (0 <= codec.number /\ codec.number < Pow(10, codec.width)) =>
               PyInt(LStrip(codec.result)) = [ok |-> TRUE, val |-> codec.number]

\* C16, witness: the first lowercase code of width 2, a0 for 1036, which
\* differs from the uppercase code A0 of 100 only by case
C16_Witness ==
    /\ codec.width = 2
    /\ codec.number = 1036
    /\ codec.result = <<"a","0">>
    /\ CodeTable[2][100] = <<"A","0">>
    /\ CodeTable[2][7] = <<" ","7">>

(***************************************************************************)
(* C17: what reshuffle_pdb returns is a permutation of its argument: the   *)
(* records that are not ATOM records first, unchanged and in their order,  *)
(* then the ATOM records in non-decreasing order of (label columns         *)
(* [72,76), residue number), those of equal key in their original order;   *)
(* reshuffle_pdb applied to its own result returns it unchanged.           *)
(***************************************************************************)
IsRemLine(l) == ~IsAtomLine(l)

\* the key of a record as the claim states it
LabelRes(l) == <<Slice(l, 72, 76), FieldInt(l, 22, 26)>>

\* the key of a does not come after the key of b
LabelResLeq(a, b) ==
    \/ StrLess(LabelRes(a)[1], LabelRes(b)[1])
    \/ LabelRes(a)[1] = LabelRes(b)[1] /\ LabelRes(a)[2] <= LabelRes(b)[2]

\* how often record l occurs in sequence f
Occurrences(f, l) == Cardinality({i \in 1..Len(f) : f[i] = l})

C17_ReshuffleSorts ==
    (calls > 0 /\ newFile_list # ValueError) =>
        LET rem == SelectSeq(pdb_file, IsRemLine)
            atoms == SelectSeq(pdb_file, IsAtomLine)
            sorted == SubSeq(newFile_list, Len(rem) + 1, Len(newFile_list))
        IN  /\ Len(newFile_list) = Len(pdb_file)
            /\ \A i \in 1..Len(pdb_file) :
                   Occurrences(newFile_list, pdb_file[i])
                       = Occurrences(pdb_file, pdb_file[i])
            /\ SubSeq(newFile_list, 1, Len(rem)) = rem
            /\ \A j, k \in 1..Len(sorted) :
                   j < k => LabelResLeq(sorted[j], sorted[k])
            /\ \A i \in 1..Len(atoms) :
                   LET SameKey(l) == LabelRes(l) = LabelRes(atoms[i])
                   IN  SelectSeq(sorted, SameKey) = SelectSeq(atoms, SameKey)
            /\ calls = 2 => newFile_list = pdb_file

\* C17, witness: residue 10, a title, then two records of residue 2 in
\* decreasing order of their serials: the title comes first, the records of
\* residue 2 keep their order and residue 10 follows them
C17_Witness ==
    /\ calls = 1
    /\ pdb_file = <<Atom(3, NameC, ResDA, 10, Seg1, 3), TitleLine,
                    Atom(2, NameC, ResDA, 2, Seg1, 2),
                    Atom(1, NameC, ResDA, 2, Seg1, 1)>>
    /\ newFile_list = <<TitleLine, Atom(2, NameC, ResDA, 2, Seg1, 2),
                        Atom(1, NameC, ResDA, 2, Seg1, 1),
                        Atom(3, NameC, ResDA, 10, Seg1, 3)>>

(***************************************************************************)
(* C18: an ATOM record whose atom-name columns [12,16) are blank has no    *)
(* effect on a call: the call raises or returns exactly what it does for   *)
(* the records without that record (from the same state of the instance),  *)
(* processes the same records and leaves the same renumbering state and    *)
(* serial counter, also when the residue-number columns of the record are  *)
(* malformed.                                                              *)
(***************************************************************************)
BlankName(l) == IsAtomLine(l) /\ Slice(l, 12, 16) = <<" "," "," "," ">>

\* the records f without the i-th one
Without(f, i) == SubSeq(f, 1, i - 1) \o SubSeq(f, i + 1, Len(f))

C18_BlankNameNoEffect ==
    [][ \A i \in 1..Len(pdb_file') :
            BlankName(pdb_file'[i]) =>
                correct_pdb(current, Without(pdb_file', i), logic')
                    = [raised |-> LastResult'.raised,
                       value |-> LastResult'.value,
                       current |-> current',
                       processed |-> processed'] ]_vars

\* C18, witness: a blank-name record with a malformed residue number before
\* an atom record: the call returns and the atom record gets serial 1
C18_Witness ==
    /\ calls = 1
    /\ Returned
    /\ logic.molecule_chain /\ logic.atom_number
    /\ Len(pdb_file) = 2
    /\ BlankName(pdb_file[1])
    /\ ~PyInt(RemoveSpaces(Slice(pdb_file[1], 22, 26))).ok
    /\ Len(processed) = 1
    /\ processed[1].inp = pdb_file[2]
    /\ Len(OutAtoms(LastResult.value)) = 1
    /\ FieldInt(OutAtoms(LastResult.value)[1], 6, 11) = 1

(***************************************************************************)
(* C19: every kept ATOM record of at least 78 columns comes out with the   *)
(* length, the record-type columns [0,6) and the coordinate columns        *)
(* [30,54) of the input record; correct_nomenclature changes only columns  *)
(* [12,16) and [17,20) of a record and returns it unchanged when neither   *)
(* name is in the tables; correct_occupancy changes only columns [54,62).  *)
(***************************************************************************)
\* records a and b are equal outside the columns of the set cols
SameOutside(a, b, cols) ==
    /\ Len(a) = Len(b)
    /\ \A c \in 0..(Len(a) - 1) : c \notin cols => a[c + 1] = b[c + 1]

C19_Original ==
    /\ \A i \in 1..Len(processed) :
           LET e == processed[i]
               out == e.emitted[Len(e.emitted)]
           IN  (Len(e.inp) >= 78 /\ out # <<>>) =>
                   /\ Len(out) = Len(e.inp)
                   /\ Slice(out, 0, 6) = Slice(e.inp, 0, 6)
                   /\ Slice(out, 30, 54) = Slice(e.inp, 30, 54)
    /\ \A i \in 1..Len(pdb_file) :
           LET l == pdb_file[i]
           IN  (IsAtomLine(l) /\ Len(l) >= 78) =>
                   /\ SameOutside(correct_nomenclature(l), l, (12..15) \cup (17..19))
                   /\ ( /\ Slice(l, 12, 16) \notin DOMAIN NOMCLA
                        /\ Slice(l, 17, 20) \notin DOMAIN NOMCLA_BASE ) =>
                           correct_nomenclature(l) = l
                   /\ SameOutside(correct_occupancy(l), l, 54..61)

(***************************************************************************)
(* C20: with molecule_chain enabled, a call and the call from the same     *)
(* instance state on the same records with reset_numbers flipped (other    *)
(* flags equal) raise alike, process the same records, insert TER before   *)
(* the same records and produce records that differ at most in the         *)
(* residue-number columns [22,26) (so chain letters, labels and serials    *)
(* agree), with the same renumbering state after every record; with        *)
(* reset_numbers disabled the residue-number columns of a record are the   *)
(* width-4 code of its input residue number.                               *)
(***************************************************************************)
\* two results of correct_pdb that differ at most in the residue-number columns
SameButResidue(a, b) ==
    /\ a.raised = b.raised
    /\ a.current = b.current
    /\ Len(a.value) = Len(b.value)
    /\ Len(a.processed) = Len(b.processed)
    /\ \A i \in 1..Len(a.processed) :
           LET p == a.processed[i]
               q == b.processed[i]
           IN  /\ p.inp = q.inp
               /\ p.current = q.current
               /\ Len(p.emitted) = Len(q.emitted)
               /\ TerBefore(p) <=> TerBefore(q)
               /\ SameOutside(p.renum, q.renum, 22..25)
               /\ SameOutside(p.emitted[Len(p.emitted)],
                              q.emitted[Len(q.emitted)], 22..25)

C20_ResetOnlyResidueColumn ==
    [][ logic'.molecule_chain =>
            /\ \A other \in {correct_pdb(current, pdb_file',
                                         [logic' EXCEPT !.reset_numbers = ~@])} :
                   SameButResidue(other,
                                  [raised |-> LastResult'.raised,
                                   value |-> LastResult'.value,
                                   current |-> current',
                                   processed |-> processed'])
            /\ ~logic'.reset_numbers =>
                   \A i \in 1..Len(processed') :
                       Slice(processed'[i].renum, 22, 26)
                           = number_to_hybrid36_number(InRes(processed'[i]), 4) ]_vars

\* C20, witness: reset_numbers disabled, residue 4 after a gap: the record
\* keeps residue number 4 and gets a TER while the state holds 11
C20_Witness ==
    /\ logic.molecule_chain /\ ~logic.reset_numbers
    /\ \E i \in 1..Len(processed) :
           /\ InRes(processed[i]) = 4
           /\ OutRes(processed[i]) = 4
           /\ TerBefore(processed[i])
           /\ processed[i].current.last_molecule_number = 11

====
